---- MODULE Spec2Model ----
(***************************************************************************)
(* Verification model of the hakilens crawl-and-extract pipeline:          *)
(*   - HttpClient (hakilens_scraper/http_utils.py): pacing gate and retry  *)
(*   - scrape_case_detail / crawl_listing (scraper.py): upsert by URL,     *)
(*     text reconciliation, the two locks, the listing traversal           *)
(*   - scrape_url / search_and_scrape (scraper.py): the entry points       *)
(*   - get_session (db.py) and db_write_lock: who commits under the lock   *)
(*   - is_listing_page (parsers/kenyalaw.py), summarize_case (api.py)      *)
(***************************************************************************)
EXTENDS Integers, Sequences, FiniteSets, TLC

\* ------------------------------------------------------------------ bounds
NThreads == 2          \* threads of the request-serving thread pool
MaxElapsed == 12       \* seconds of wall-clock time the fetcher model covers
MaxRequests == 4       \* HTTP requests dispatched in the fetcher model
NUrls == 2             \* distinct detail-page URLs
MaxRuns == 2           \* calls of scrape_case_detail started by the threads
MaxFaults == 1         \* failed page fetches and store contentions injected
MaxLenUnits == 2       \* page versions 0..MaxLenUnits; text lengths are k * LenUnit
LenUnit == 400         \* characters per unit of text length
MaxPdfLinks == 1       \* PDF links on a detail page
ManyPdfLinks == 2      \* PDF links on a detail page where the PDF loop is followed
MaxImageLinks == 1     \* image links on a detail page
NListingPages == 2     \* listing pages of the site
MaxPagesArg == 2       \* largest max_pages a crawl is called with
MaxFetches == 3        \* listing-page fetches of one crawl the model follows
MaxNextAnchors == 1    \* rel=next anchors on a page
MaxPerClass == 2       \* elements of one container class on a page

\* ------------------------------------------------------- program constants
RateLimitWindow == 60            \* self.rate_limit_window
RequestsPerMinute == 15          \* settings.requests_per_minute (default)
FetchMaxAttempts == 3            \* stop_after_attempt(3) on get / download
BackoffInitial == 1              \* wait_exponential_jitter(initial=1, ...)
BackoffMax == 10                 \* wait_exponential_jitter(..., max=10)
DetailMaxAttempts == 3           \* stop_after_attempt(3) on scrape_case_detail
NAknCandidates == 4              \* the four candidate XML URLs
PdfFallbackMinLen == 800         \* len(case.content_text) < 800
NSearchCandidates == 3           \* the three query-string variants
SearchMaxPages == 3              \* crawl_listing(url, max_pages=3, ...)
ListingMinContainers == 5        \* len(soup.select(...)) >= 5

Threads == 1..NThreads
URLs == 1..NUrls
TextLens == {k * LenUnit : k \in 0..MaxLenUnits}

Max(a, b) == IF a >= b THEN a ELSE b
Min(a, b) == IF a <= b THEN a ELSE b

RECURSIVE Pow2(_)
Pow2(n) == IF n <= 0 THEN 1 ELSE 2 * Pow2(n - 1)

VARIABLES
    \* ---- HttpClient (one process-wide instance, http_client)
    clock,            \* time.time(), in seconds
    lastRequestTime,  \* self._last_request_time
    callers,          \* the threads that use the fetcher in this run
    hpc,              \* per thread: position inside get / download
    hkind,            \* per thread: "get" or "download"
    attemptNumber,    \* per thread: tenacity's attempt_number of the call
    wakeAt,           \* per thread: end of the current time.sleep
    outcomes,         \* per thread: results of the requests of the current call
    dispatchCount,    \* number of requests dispatched so far
    firstDispatch,    \* time of the first dispatch
    prevDispatch,     \* time of the dispatch before the latest one
    lastDispatch,     \* time of the latest dispatch
    \* ---- the store (committed rows of the SQLite database)
    cases,            \* table cases: row id = position
    documents,        \* table documents, in insertion order
    images,           \* table images, in insertion order
    \* ---- scrape_case_detail, per thread
    txLock,           \* owner of _transaction_lock (NoThread when free)
    pc,               \* position of the thread inside scrape_case_detail
    job,              \* arguments of the call: url, deep
    attempt,          \* tenacity's attempt_number of scrape_case_detail
    parsed,           \* the CaseParsed of the fetched page
    caseId,           \* id of the row bound to `case`
    pending,          \* `case` was flushed by an INSERT not yet committed
    conflict,         \* the INSERT of this attempt hit the unique constraint
    aknText,          \* akn_text
    firstPdfText,     \* first_pdf_text
    idx,              \* position in the current loop (candidates, links)
    result,           \* the returned Case id
    runsStarted,      \* calls of scrape_case_detail started so far
    faults,           \* failures injected so far
    idsReturned,      \* per URL: the Case ids returned for it so far
    attempted,        \* per thread: PDF and image links the loops have been through
    stored,           \* per thread: Document and Image rows this attempt committed
    aknSeen,          \* per thread: the texts the XML candidates have yielded
    undo,             \* per thread: what session.rollback() would restore
    \* ---- the listing site and crawl_listing
    siteLen,          \* listing pages 1..siteLen are chained by their next links
    siteCyclic,       \* the last page links back to page 1 (else: no next link)
    cpc,              \* position inside crawl_listing
    maxPages,         \* argument max_pages: [set |-> FALSE] is None
    crawlDeep,        \* argument deep
    currentUrl,       \* current_url (NoPage is None)
    pageCount,        \* page_count
    ids,              \* ids
    links,            \* links of the current page, as extracted
    nextLink,         \* next_link of the current page
    linkIdx,          \* position of the for loop in links
    fetchCount,       \* listing-page fetches issued by this crawl
    visitedLinks,     \* the detail links of the pages visited, in order
    linksTried,       \* detail links scrape_case_detail was called for
    succeeded,        \* the URLs whose scrape_case_detail returned, in order
    \* ---- scrape_url and search_and_scrape
    entry,            \* the function the caller invoked ("none": not yet)
    epc,              \* position inside scrape_url / search_and_scrape
    target,           \* scrape_url: the URL it was given
    targetFetches,    \* scrape_url: GET requests issued for that URL
    candIdx,          \* search_and_scrape: position of the loop in candidates
    allIds,           \* search_and_scrape: all_ids
    crawlsDone,       \* search_and_scrape: how the crawl of each candidate ended
    returned,         \* the list scrape_url / search_and_scrape returned
    \* ---- the sessions and db_write_lock, per thread
    dbWriteLock,      \* owner of db_write_lock (NoThread when free)
    handler,          \* the function the thread runs its session in
    site,             \* the flush / commit of that function the thread is at
    wpc,              \* position of the thread at that flush / commit
    exited,           \* the function the thread last left, and how
    \* ---- the failures the environment injects
    runBudget,        \* how many calls of scrape_case_detail a run has
    faultBudget,      \* how many failures a run may see
    pdfLinks,         \* how many PDF links a short detail page carries
    \* ---- is_listing_page
    page,             \* the page handed to is_listing_page
    verdict           \* what it returned ("none": not called yet)

fetchVars == <<clock, lastRequestTime, callers, hpc, hkind, attemptNumber,
               wakeAt, outcomes, dispatchCount, firstDispatch, prevDispatch,
               lastDispatch>>

storeVars == <<cases, documents, images>>

detailVars == <<txLock, pc, job, attempt, parsed, caseId, pending, conflict,
                aknText, firstPdfText, idx, result, runsStarted, faults,
                idsReturned, attempted, stored, aknSeen, undo>>

entryVars == <<entry, epc, target, targetFetches, candIdx, allIds,
               crawlsDone, returned>>

crawlVars == <<siteLen, siteCyclic, cpc, maxPages, crawlDeep, currentUrl,
               pageCount, ids, links, nextLink, linkIdx, fetchCount,
               visitedLinks, linksTried, succeeded, entryVars>>

commitVars == <<dbWriteLock, handler, site, wpc, exited>>

envVars == <<runBudget, faultBudget, pdfLinks>>

classifyVars == <<page, verdict>>

vars == <<fetchVars, storeVars, detailVars, crawlVars, commitVars, envVars,
          classifyVars>>

\* =====================================================================
\* HttpClient
\* =====================================================================

\* self.max_requests_per_window = max(1, settings.requests_per_minute)
MaxRequestsPerWindow == Max(1, RequestsPerMinute)

\* self.min_interval = self.rate_limit_window / self.max_requests_per_window
MinInterval == RateLimitWindow \div MaxRequestsPerWindow

\* wait_exponential_jitter(initial=1, max=10): the wait before attempt n+1 is
\* min(max, initial * 2^(n-1) + jitter); the jitter only lengthens the sleep,
\* which the clock may overrun anyway.
BackoffDelay(n) == Min(BackoffMax, BackoffInitial * Pow2(n - 1))

InitFetcherFor(cs) ==
    /\ clock = RateLimitWindow
    /\ lastRequestTime = 0
    /\ callers = cs
    /\ hpc = [t \in Threads |-> "idle"]
    /\ hkind = [t \in Threads |-> "get"]
    /\ attemptNumber = [t \in Threads |-> 0]
    /\ wakeAt = [t \in Threads |-> 0]
    /\ outcomes = [t \in Threads |-> <<>>]
    /\ dispatchCount = 0
    /\ firstDispatch = 0
    /\ prevDispatch = 0
    /\ lastDispatch = 0

\* Wall-clock time passes.
Tick ==
    /\ clock < RateLimitWindow + MaxElapsed
    /\ clock' = clock + 1
    /\ UNCHANGED <<lastRequestTime, callers, hpc, hkind, attemptNumber,
                   wakeAt, outcomes, dispatchCount, firstDispatch, prevDispatch,
                   lastDispatch>>
    /\ UNCHANGED <<storeVars, detailVars, crawlVars, commitVars, envVars, classifyVars>>

\* A caller enters http_client.get(url) or http_client.download(url).
HttpCall(t, kind) ==
    /\ t \in callers
    /\ hpc[t] = "idle"
    /\ hkind' = [hkind EXCEPT ![t] = kind]
    /\ attemptNumber' = [attemptNumber EXCEPT ![t] = 1]
    /\ outcomes' = [outcomes EXCEPT ![t] = <<>>]
    /\ hpc' = [hpc EXCEPT ![t] = "gate"]
    /\ UNCHANGED <<clock, lastRequestTime, callers, wakeAt, dispatchCount,
                   firstDispatch, prevDispatch, lastDispatch>>
    /\ UNCHANGED <<storeVars, detailVars, crawlVars, commitVars, envVars, classifyVars>>

\* A gate that never waits.
GateNoSleep(now, last) == 0

\* _respect_rate_limit, lines 43-46: now = time.time(); delta = now - last;
\* if delta < min_interval the thread goes to sleep for min_interval - delta.
GateSleepFor(now, last) ==
    IF now - last < MinInterval THEN MinInterval - (now - last) ELSE 0

RespectRateLimitRead(t) ==
    /\ hpc[t] = "gate"
    /\ wakeAt' = [wakeAt EXCEPT ![t] =
                    IF GateSleepFor(clock, lastRequestTime) > 0
                      THEN clock + GateSleepFor(clock, lastRequestTime) ELSE 0]
    /\ hpc' = [hpc EXCEPT ![t] =
                 IF GateSleepFor(clock, lastRequestTime) > 0 THEN "sleep" ELSE "stamp"]
    /\ UNCHANGED <<clock, lastRequestTime, callers, hkind, attemptNumber, outcomes,
                   dispatchCount, firstDispatch, prevDispatch, lastDispatch>>
    /\ UNCHANGED <<storeVars, detailVars, crawlVars, commitVars, envVars, classifyVars>>

\* time.sleep(d) returns once at least d seconds have passed.
SleepOver(t) == clock >= wakeAt[t]

RespectRateLimitWake(t) ==
    /\ hpc[t] = "sleep"
    /\ SleepOver(t)
    /\ hpc' = [hpc EXCEPT ![t] = "stamp"]
    /\ wakeAt' = [wakeAt EXCEPT ![t] = 0]
    /\ UNCHANGED <<clock, lastRequestTime, callers, hkind, attemptNumber,
                   outcomes, dispatchCount, firstDispatch, prevDispatch,
                   lastDispatch>>
    /\ UNCHANGED <<storeVars, detailVars, crawlVars, commitVars, envVars, classifyVars>>

\* _respect_rate_limit, line 47, and the session.get that follows it: the
\* request is dispatched at the time stamped into _last_request_time.
Dispatch(t) ==
    /\ hpc[t] = "stamp"
    /\ dispatchCount < MaxRequests
    /\ lastRequestTime' = clock
    /\ dispatchCount' = dispatchCount + 1
    /\ firstDispatch' = IF dispatchCount = 0 THEN clock ELSE firstDispatch
    /\ prevDispatch' = lastDispatch
    /\ lastDispatch' = clock
    /\ hpc' = [hpc EXCEPT ![t] = "sent"]
    /\ UNCHANGED <<clock, callers, hkind, attemptNumber, wakeAt, outcomes>>
    /\ UNCHANGED <<storeVars, detailVars, crawlVars, commitVars, envVars, classifyVars>>

\* A retry policy that stops one attempt late.
RetryStopsLate(n) == n >= FetchMaxAttempts + 1

\* tenacity's stop_after_attempt(3): after a failed attempt the call is
\* re-attempted unless attempt_number has reached 3.
RetryStops(n) == n >= FetchMaxAttempts

\* The response arrives: resp.raise_for_status() passes and the call returns.
ResponseOk(t) ==
    /\ hpc[t] = "sent"
    /\ outcomes' = [outcomes EXCEPT ![t] = Append(@, "ok")]
    /\ hpc' = [hpc EXCEPT ![t] = "returned"]
    /\ UNCHANGED <<clock, lastRequestTime, callers, hkind, attemptNumber,
                   wakeAt, dispatchCount, firstDispatch, prevDispatch, lastDispatch>>
    /\ UNCHANGED <<storeVars, detailVars, crawlVars, commitVars, envVars, classifyVars>>

\* The request fails (network error, timeout, non-2xx): tenacity either sleeps
\* before the next attempt or gives up and raises.
ResponseFail(t) ==
    /\ hpc[t] = "sent"
    /\ outcomes' = [outcomes EXCEPT ![t] = Append(@, "fail")]
    /\ IF RetryStops(attemptNumber[t])
         THEN /\ hpc' = [hpc EXCEPT ![t] = "raised"]
              /\ UNCHANGED wakeAt
         ELSE /\ hpc' = [hpc EXCEPT ![t] = "backoff"]
              /\ wakeAt' = [wakeAt EXCEPT ![t] = clock + BackoffDelay(attemptNumber[t])]
    /\ UNCHANGED <<clock, lastRequestTime, callers, hkind, attemptNumber,
                   dispatchCount, firstDispatch, prevDispatch, lastDispatch>>
    /\ UNCHANGED <<storeVars, detailVars, crawlVars, commitVars, envVars, classifyVars>>

\* The backoff sleep is over: next attempt, through the gate again.
RetryAttempt(t) ==
    /\ hpc[t] = "backoff"
    /\ SleepOver(t)
    /\ attemptNumber' = [attemptNumber EXCEPT ![t] = @ + 1]
    /\ hpc' = [hpc EXCEPT ![t] = "gate"]
    /\ wakeAt' = [wakeAt EXCEPT ![t] = 0]
    /\ UNCHANGED <<clock, lastRequestTime, callers, hkind, outcomes,
                   dispatchCount, firstDispatch, prevDispatch, lastDispatch>>
    /\ UNCHANGED <<storeVars, detailVars, crawlVars, commitVars, envVars, classifyVars>>

\* The caller takes the response (or the exception) and is free to call again.
HttpDone(t) ==
    /\ hpc[t] \in {"returned", "raised"}
    /\ hpc' = [hpc EXCEPT ![t] = "idle"]
    /\ hkind' = [hkind EXCEPT ![t] = "get"]
    /\ attemptNumber' = [attemptNumber EXCEPT ![t] = 0]
    /\ outcomes' = [outcomes EXCEPT ![t] = <<>>]
    /\ UNCHANGED <<clock, lastRequestTime, callers, wakeAt, dispatchCount,
                   firstDispatch, prevDispatch, lastDispatch>>
    /\ UNCHANGED <<storeVars, detailVars, crawlVars, commitVars, envVars, classifyVars>>

NextFetch ==
    \/ Tick
    \/ \E t \in Threads, kind \in {"get", "download"} : HttpCall(t, kind)
    \/ \E t \in Threads : RespectRateLimitRead(t)
    \/ \E t \in Threads : RespectRateLimitWake(t)
    \/ \E t \in Threads : Dispatch(t)
    \/ \E t \in Threads : ResponseOk(t)
    \/ \E t \in Threads : ResponseFail(t)
    \/ \E t \in Threads : RetryAttempt(t)
    \/ \E t \in Threads : HttpDone(t)

\* =====================================================================
\* The store: tables cases, documents, images (db.py)
\* =====================================================================

NoCase == 0          \* one_or_none() found no row
NoThread == 0        \* _transaction_lock is free
NoTitle == 0         \* parsed.title is None
NoCitation == 0      \* parsed.citation is None

\* A text is known by its source and its length; the empty text and None are
\* both falsy in the code and are the same value here.
NoText == [src |-> "none", len |-> 0]
TextOf(source, n) == IF n = 0 THEN NoText ELSE [src |-> source, len |-> n]

\* Case.summary is NULL, or the summary a model wrote.
NoSummary == NoText

\* The site serves one of a few versions of a detail page. Version k carries
\* title k (version 0 has no title), citation k + 1 (the last version has
\* none) and a body of k * LenUnit characters; the short versions link PDFs,
\* the odd ones link images. The title and the citation stand for the seven
\* scalar fields of CaseParsed.
PageVersion(k) ==
    [title |-> k,
     citation |-> (k + 1) % (MaxLenUnits + 1),
     text |-> TextOf("html", k * LenUnit),
     npdf |-> IF k * LenUnit < PdfFallbackMinLen THEN pdfLinks ELSE 0,
     nimg |-> IF k % 2 = 1 THEN MaxImageLinks ELSE 0]

\* CaseParsed, as parse_case_detail returns it for a fetched page.
ParsedPages == {PageVersion(k) : k \in 0..MaxLenUnits}

NoParsed ==
    [title |-> NoTitle, citation |-> NoCitation, text |-> NoText, npdf |-> 0, nimg |-> 0]

\* "/eng@" in parsed.url
HasMarker(u) == u % 2 = 1

\* session.query(Case).filter(Case.url == parsed.url).one_or_none()
LookupCase(cs, u) ==
    IF \E i \in 1..Len(cs) : cs[i].url = u
      THEN CHOOSE i \in 1..Len(cs) : cs[i].url = u
      ELSE NoCase

\* A table without the unique constraint on url.
NoUniqueConstraint(cs, u) == FALSE

\* Column url is unique=True: an INSERT of a url the table already holds
\* raises IntegrityError.
UniqueViolation(cs, u) == \E i \in 1..Len(cs) : cs[i].url = u

\* A handler that does not read the winning row back.
RereadNothing(cs, u) == NoCase

\* except IntegrityError: session.rollback();
\* case = session.query(Case).filter(Case.url == parsed.url).one()
RereadCase(cs, u) == LookupCase(cs, u)

\* case = Case(url=parsed.url): the row as the INSERT writes it.
NewCase(u) ==
    [url |-> u, title |-> NoTitle, citation |-> NoCitation, text |-> NoText,
     summary |-> NoSummary]

\* An upsert that keeps a stored field when the page has no value for it.
KeepStoredWhenAbsent(row, p) ==
    [row EXCEPT !.title = IF p.title = NoTitle THEN @ ELSE p.title,
                !.citation = IF p.citation = NoCitation THEN @ ELSE p.citation,
                !.text = p.text]

\* Lines 52-59: every scalar field and content_text are assigned from parsed.
ApplyParsed(row, p) ==
    [row EXCEPT !.title = p.title, !.citation = p.citation, !.text = p.text]

\* An upsert that writes the row anew.
CommitReplace(cs, id, isPending, u, p) ==
    IF isPending
      THEN Append(cs, ApplyParsed(NewCase(u), p))
      ELSE [cs EXCEPT ![id] = ApplyParsed(NewCase(u), p)]

\* Lines 60-64: flush and commit of the case upsert. A pending INSERT becomes
\* a committed row; an existing row is updated in place.
CommitUpsert(cs, id, isPending, u, p) ==
    IF isPending
      THEN Append(cs, ApplyParsed(NewCase(u), p))
      ELSE [cs EXCEPT ![id] = ApplyParsed(cs[id], p)]

\* An enrichment that keeps the latest non-empty candidate.
LatestAkn(current, candidate) == IF candidate.len > 0 THEN candidate ELSE current

\* Line 89: a candidate replaces akn_text when it is non-empty and longer.
BetterAkn(current, candidate) ==
    IF candidate.len > 0 /\ candidate.len > current.len THEN candidate ELSE current

\* Line 93: akn_text and (not parsed.content_text or
\*          len(parsed.content_text or "") < len(akn_text))
AknWins(ptext, akn) == akn.len > 0 /\ (ptext.len = 0 \/ ptext.len < akn.len)

\* A fallback that does not look at the length of the current text.
PdfFallbackAlways(deep, text, pdf) == deep /\ pdf.len > 0

\* Line 145: deep and (not case.content_text or len(case.content_text) < 800)
\*           and first_pdf_text
PdfFallbackApplies(deep, text, pdf) ==
    deep /\ (text.len = 0 \/ text.len < PdfFallbackMinLen) /\ pdf.len > 0

SetText(cs, id, text) == [cs EXCEPT ![id].text = text]

\* A loop that extracts the text of every PDF it downloads.
ExtractsEveryPdf(current, deep) == deep

\* Line 117: if first_pdf_text is None and deep
ExtractsText(current, deep) == current = NoText /\ deep

\* summarize_case (api.py lines 267-269):
\* text = c.content_text or c.title or ...; without any, 400 is raised.
Summarizable(row) ==
    row.text.len > 0 \/ row.title # NoTitle \/ row.citation # NoCitation
\* generate_completion(...): some text of the model, known by the field the
\* prompt was written from.
SummaryOf(row) ==
    TextOf(IF row.text.len > 0 THEN "content_text"
           ELSE IF row.title # NoTitle THEN "title" ELSE "citation", 1)

\* An href of a detail page is relative to the page or absolute. The i-th PDF
\* link of a page is a relative one, the i-th image link an absolute one.
PdfLink(i) == [abs |-> FALSE, n |-> i]
ImageLink(i) == [abs |-> TRUE, n |-> i]

\* A URL is <<page, n>>: resource n below the detail page, or, with page 0,
\* resource n of another host.
OtherHost == 0

\* A resolution that keeps the href as it stands.
KeepHref(base, href) == <<OtherHost, href.n>>

\* normalize_url(base, href) = urljoin(base, href): a relative href is resolved
\* against the base, an absolute one is taken as it is.
normalize_url(base, href) == IF href.abs THEN <<OtherHost, href.n>> ELSE <<base, href.n>>

\* _sha1(url): the hex digest of the URL, taken to be free of collisions on
\* the URLs of the model; the digest of <<page, n>> is page * Radix + n.
Radix == Max(Max(MaxPdfLinks, ManyPdfLinks), MaxImageLinks) + 1
sha1(url) == url[1] * Radix + url[2]

\* save_pdf / save_image: the file goes to settings.pdf_dir or
\* settings.image_dir under the digest of its source URL (the extension, taken
\* from the content type, follows the digest and is left out).
save_pdf(url) == [dir |-> "pdf", name |-> sha1(url)]
save_image(url) == [dir |-> "image", name |-> sha1(url)]

\* Document(case_id=case.id, file_path=str(path), url=abs_url, ...)
DocumentRow(id, u, i) ==
    [case_id |-> id,
     url |-> normalize_url(u, PdfLink(i)),
     file_path |-> save_pdf(normalize_url(u, PdfLink(i)))]

\* Image(case_id=case.id, file_path=str(path), url=abs_url)
ImageRow(id, u, i) ==
    [case_id |-> id,
     url |-> normalize_url(u, ImageLink(i)),
     file_path |-> save_image(normalize_url(u, ImageLink(i)))]

\* A session holds the mutations made since its last commit; rollback()
\* takes the store back to what that commit left. NoUndo: nothing is
\* uncommitted; otherwise the tables as they were committed.
NoUndo == <<>>

\* A session that leaves its mutations to the commit of get_session.
CommitAtClose(u, tables) == IF u = NoUndo THEN <<tables>> ELSE u

\* Lines 61-64, 98-100, 114-116, 138-140, 148-150: session.flush() and
\* session.commit() follow the mutation at once: nothing is left to undo.
CommitAtOnce(u, tables) == NoUndo

\* session.rollback() (db.py line 129): the uncommitted mutations are dropped.
RolledBack(u, tables) == IF u = NoUndo THEN tables ELSE u[1]

\* The Document and Image rows an attempt has committed so far.
NoneStored == [doc |-> 0, img |-> 0]

InitStore ==
    /\ cases = <<>>
    /\ documents = <<>>
    /\ images = <<>>

\* =====================================================================
\* scrape_case_detail (scraper.py), one instance per thread
\* =====================================================================

InitDetail ==
    /\ txLock = NoThread
    /\ pc = [t \in Threads |-> "idle"]
    /\ job = [t \in Threads |-> [url |-> 1, deep |-> FALSE]]
    /\ attempt = [t \in Threads |-> 0]
    /\ parsed = [t \in Threads |-> NoParsed]
    /\ caseId = [t \in Threads |-> NoCase]
    /\ pending = [t \in Threads |-> FALSE]
    /\ conflict = [t \in Threads |-> FALSE]
    /\ aknText = [t \in Threads |-> NoText]
    /\ firstPdfText = [t \in Threads |-> NoText]
    /\ idx = [t \in Threads |-> 0]
    /\ result = [t \in Threads |-> NoCase]
    /\ runsStarted = 0
    /\ faults = 0
    /\ idsReturned = [u \in URLs |-> {}]
    /\ attempted = [t \in Threads |-> 0]
    /\ stored = [t \in Threads |-> NoneStored]
    /\ aknSeen = [t \in Threads |-> {}]
    /\ undo = [t \in Threads |-> NoUndo]

\* A flow that does not wait for the lock.
TxLockIgnored(owner) == TRUE

\* with _transaction_lock: the lock can be taken when no thread holds it.
TxLockFree(owner) == owner = NoThread

\* The positions of scrape_case_detail inside `with _transaction_lock, ...`.
InTx == {"lookup", "insert", "assign", "akn", "pdfs", "images", "fallback", "close"}

\* The locals of an attempt, as they are before line 26 runs.
ResetLocals(t) ==
    /\ parsed' = [parsed EXCEPT ![t] = NoParsed]
    /\ caseId' = [caseId EXCEPT ![t] = NoCase]
    /\ pending' = [pending EXCEPT ![t] = FALSE]
    /\ conflict' = [conflict EXCEPT ![t] = FALSE]
    /\ aknText' = [aknText EXCEPT ![t] = NoText]
    /\ firstPdfText' = [firstPdfText EXCEPT ![t] = NoText]
    /\ idx' = [idx EXCEPT ![t] = 0]
    /\ attempted' = [attempted EXCEPT ![t] = 0]
    /\ stored' = [stored EXCEPT ![t] = NoneStored]
    /\ aknSeen' = [aknSeen EXCEPT ![t] = {}]
    /\ undo' = [undo EXCEPT ![t] = NoUndo]

\* A wrapper that allows one attempt more.
DetailStopsLate(n) == n > DetailMaxAttempts

\* An exception leaves the function body: get_session rolls back and closes,
\* _transaction_lock is released if held, and @retry(stop_after_attempt(3))
\* either runs the whole function again or gives up.
DetailStops(n) == n >= DetailMaxAttempts

RaiseFromDetail(t) ==
    /\ faults < faultBudget
    /\ faults' = faults + 1
    /\ txLock' = IF txLock = t THEN NoThread ELSE txLock
    /\ ResetLocals(t)
    /\ IF DetailStops(attempt[t])
         THEN /\ pc' = [pc EXCEPT ![t] = "failed"]
              /\ UNCHANGED attempt
         ELSE /\ pc' = [pc EXCEPT ![t] = "fetch"]
              /\ attempt' = [attempt EXCEPT ![t] = @ + 1]
    /\ UNCHANGED <<job, result, runsStarted, idsReturned>>

\* A thread of the serving layer calls scrape_case_detail(url, deep).
CallDetail(t, u, d) ==
    /\ t \in callers
    /\ pc[t] = "idle"
    /\ runsStarted < runBudget
    /\ runsStarted' = runsStarted + 1
    /\ job' = [job EXCEPT ![t] = [url |-> u, deep |-> d]]
    /\ attempt' = [attempt EXCEPT ![t] = 1]
    /\ pc' = [pc EXCEPT ![t] = "fetch"]
    /\ UNCHANGED <<txLock, parsed, caseId, pending, conflict, aknText,
                   firstPdfText, idx, result, faults, idsReturned>>
    /\ UNCHANGED <<classifyVars, envVars, commitVars, fetchVars, storeVars, crawlVars>>
    /\ UNCHANGED <<attempted, stored, aknSeen, undo>>

\* Lines 26-28: the page is fetched and parsed, outside the lock.
DetailFetchOk(t, p) ==
    /\ pc[t] = "fetch"
    /\ parsed' = [parsed EXCEPT ![t] = p]
    /\ pc' = [pc EXCEPT ![t] = "lock"]
    /\ UNCHANGED <<txLock, job, attempt, caseId, pending, conflict, aknText,
                   firstPdfText, idx, result, runsStarted, faults, idsReturned>>
    /\ UNCHANGED <<classifyVars, envVars, commitVars, fetchVars, storeVars, crawlVars>>
    /\ UNCHANGED <<attempted, stored, aknSeen, undo>>

\* Line 26: http_client.get gave up after its own retries.
DetailFetchFail(t) ==
    /\ pc[t] = "fetch"
    /\ RaiseFromDetail(t)
    /\ UNCHANGED <<classifyVars, envVars, commitVars, fetchVars, storeVars, crawlVars>>

\* Line 32: with _transaction_lock, get_session() as session.
AcquireTxLock(t) ==
    /\ pc[t] = "lock"
    /\ TxLockFree(txLock)
    /\ txLock' = t
    /\ pc' = [pc EXCEPT ![t] = "lookup"]
    /\ UNCHANGED <<job, attempt, parsed, caseId, pending, conflict, aknText,
                   firstPdfText, idx, result, runsStarted, faults, idsReturned>>
    /\ UNCHANGED <<classifyVars, envVars, commitVars, fetchVars, storeVars, crawlVars>>
    /\ UNCHANGED <<attempted, stored, aknSeen, undo>>

\* Lines 33-38: look the case up by URL; a missing one is created.
LookupExisting(t) ==
    /\ pc[t] = "lookup"
    /\ caseId' = [caseId EXCEPT ![t] = LookupCase(cases, job[t].url)]
    /\ pc' = [pc EXCEPT ![t] =
                IF LookupCase(cases, job[t].url) # NoCase THEN "assign" ELSE "insert"]
    /\ UNCHANGED <<txLock, job, attempt, parsed, pending, conflict, aknText,
                   firstPdfText, idx, result, runsStarted, faults, idsReturned>>
    /\ UNCHANGED <<classifyVars, envVars, commitVars, fetchVars, storeVars, crawlVars>>
    /\ UNCHANGED <<attempted, stored, aknSeen, undo>>

\* Lines 40-46: session.flush() of the INSERT under db_write_lock. The row
\* gets the next id; on IntegrityError the winning row is read back.
InsertFlush(t) ==
    /\ pc[t] = "insert"
    /\ IF UniqueViolation(cases, job[t].url)
         THEN /\ caseId' = [caseId EXCEPT ![t] = RereadCase(cases, job[t].url)]
              /\ conflict' = [conflict EXCEPT ![t] = TRUE]
              /\ UNCHANGED pending
         ELSE /\ caseId' = [caseId EXCEPT ![t] = Len(cases) + 1]
              /\ pending' = [pending EXCEPT ![t] = TRUE]
              /\ UNCHANGED conflict
    /\ pc' = [pc EXCEPT ![t] = "assign"]
    /\ UNCHANGED <<txLock, job, attempt, parsed, aknText, firstPdfText, idx,
                   result, runsStarted, faults, idsReturned>>
    /\ UNCHANGED <<classifyVars, envVars, commitVars, fetchVars, storeVars, crawlVars>>
    /\ UNCHANGED <<attempted, stored, aknSeen, undo>>

\* Lines 47-50 and 65-67: OperationalError (database is locked) on the flush
\* or the commit: rollback, and the exception reaches the retry wrapper.
StoreContention(t) ==
    /\ pc[t] \in {"insert", "assign"}
    /\ RaiseFromDetail(t)
    /\ UNCHANGED <<classifyVars, envVars, commitVars, fetchVars, storeVars, crawlVars>>

\* Lines 148-150 and db.py line 127: OperationalError on the commit of the
\* PDF fallback or on the closing commit of get_session. What the session
\* had not committed is rolled back; the exception reaches the retry wrapper.
LateFailure(t) ==
    /\ pc[t] \in {"fallback", "close"}
    /\ RaiseFromDetail(t)
    /\ cases' = RolledBack(undo[t], <<cases, documents, images>>)[1]
    /\ documents' = RolledBack(undo[t], <<cases, documents, images>>)[2]
    /\ images' = RolledBack(undo[t], <<cases, documents, images>>)[3]
    /\ UNCHANGED <<classifyVars, envVars, commitVars, fetchVars, crawlVars>>

\* Where the flow goes once the XML candidates are done with.
PcAfterPdfs(p) == IF p.nimg > 0 THEN "images" ELSE "fallback"
PcAfterAkn(p) == IF p.npdf > 0 THEN "pdfs" ELSE PcAfterPdfs(p)

\* Lines 52-64: the parsed fields are assigned and committed.
UpsertCommit(t) ==
    /\ pc[t] = "assign"
    /\ cases' = CommitUpsert(cases, caseId[t], pending[t], job[t].url, parsed[t])
    /\ pending' = [pending EXCEPT ![t] = FALSE]
    /\ undo' = [undo EXCEPT ![t] = CommitAtOnce(@, <<cases, documents, images>>)]
    /\ idx' = [idx EXCEPT ![t] = 1]
    /\ pc' = [pc EXCEPT ![t] = "akn"]
    /\ UNCHANGED <<txLock, job, attempt, parsed, caseId, conflict, aknText,
                   firstPdfText, result, runsStarted, faults, idsReturned>>
    /\ UNCHANGED <<classifyVars, envVars, commitVars, fetchVars, documents, images, crawlVars>>
    /\ UNCHANGED <<attempted, stored, aknSeen>>

\* Lines 80-92: one candidate XML URL. It is skipped (download failure, empty
\* body, no XML content type, parse failure) or yields a text.
AknCandidate(t, skipped, n) ==
    /\ pc[t] = "akn"
    /\ HasMarker(job[t].url)
    /\ idx[t] <= NAknCandidates
    /\ aknText' = [aknText EXCEPT ![t] =
                     IF skipped THEN @ ELSE BetterAkn(@, TextOf("akn", n))]
    /\ aknSeen' = [aknSeen EXCEPT ![t] =
                     IF skipped THEN @ ELSE @ \cup {TextOf("akn", n)}]
    /\ idx' = [idx EXCEPT ![t] = @ + 1]
    /\ UNCHANGED <<txLock, pc, job, attempt, parsed, caseId, pending, conflict,
                   firstPdfText, result, runsStarted, faults, idsReturned,
                   attempted, stored, undo>>
    /\ UNCHANGED <<classifyVars, envVars, commitVars, fetchVars, storeVars, crawlVars>>

\* Lines 71 and 93-100: with no marker in the URL nothing is tried; otherwise
\* the longest candidate overwrites content_text when it beats the HTML text,
\* and is committed at once.
AknApply(t) ==
    /\ pc[t] = "akn"
    /\ ~HasMarker(job[t].url) \/ idx[t] > NAknCandidates
    /\ IF HasMarker(job[t].url) /\ AknWins(parsed[t].text, aknText[t])
         THEN /\ parsed' = [parsed EXCEPT ![t].text = aknText[t]]
              /\ cases' = SetText(cases, caseId[t], aknText[t])
              /\ undo' = [undo EXCEPT ![t] =
                             CommitAtOnce(@, <<cases, documents, images>>)]
         ELSE UNCHANGED <<parsed, cases, undo>>
    /\ aknText' = [aknText EXCEPT ![t] = NoText]
    /\ aknSeen' = [aknSeen EXCEPT ![t] = {}]
    /\ idx' = [idx EXCEPT ![t] = 1]
    /\ pc' = [pc EXCEPT ![t] = PcAfterAkn(parsed[t])]
    /\ UNCHANGED <<txLock, job, attempt, caseId, pending, conflict,
                   firstPdfText, result, runsStarted, faults, idsReturned,
                   attempted, stored>>
    /\ UNCHANGED <<classifyVars, envVars, commitVars, fetchVars, documents, images, crawlVars>>

\* Lines 106-125: a PDF link downloads; its Document row is committed; with
\* deep, the first such PDF is text-extracted (n = 0: no text, or the
\* extraction failed).
PdfDownloaded(t, n) ==
    /\ pc[t] = "pdfs"
    /\ documents' = Append(documents, DocumentRow(caseId[t], job[t].url, idx[t]))
    /\ undo' = [undo EXCEPT ![t] = CommitAtOnce(@, <<cases, documents, images>>)]
    /\ firstPdfText' = [firstPdfText EXCEPT ![t] =
                          IF ExtractsText(@, job[t].deep) THEN TextOf("pdf", n) ELSE @]
    /\ attempted' = [attempted EXCEPT ![t] = @ + 1]
    /\ stored' = [stored EXCEPT ![t].doc = @ + 1]
    /\ idx' = [idx EXCEPT ![t] = IF @ < parsed[t].npdf THEN @ + 1 ELSE 1]
    /\ pc' = [pc EXCEPT ![t] =
                IF idx[t] < parsed[t].npdf THEN "pdfs" ELSE PcAfterPdfs(parsed[t])]
    /\ UNCHANGED <<txLock, job, attempt, parsed, caseId, pending, conflict,
                   aknText, result, runsStarted, faults, idsReturned, aknSeen>>
    /\ UNCHANGED <<classifyVars, envVars, commitVars, fetchVars, cases, images, crawlVars>>

\* A loop that a failed download ends, and the asset loops with it.
AssetFailureAborts(following) == "close"

\* except Exception: continue (lines 126-127 and 141-142): after a failed
\* download the flow is where it is after a successful one.
AfterAssetFailure(following) == following

\* Lines 126-127: the download of a PDF link fails: continue.
PdfFailed(t) ==
    /\ pc[t] = "pdfs"
    /\ attempted' = [attempted EXCEPT ![t] = @ + 1]
    /\ idx' = [idx EXCEPT ![t] = IF @ < parsed[t].npdf THEN @ + 1 ELSE 1]
    /\ pc' = [pc EXCEPT ![t] =
                AfterAssetFailure(IF idx[t] < parsed[t].npdf
                                    THEN "pdfs" ELSE PcAfterPdfs(parsed[t]))]
    /\ UNCHANGED <<txLock, job, attempt, parsed, caseId, pending, conflict,
                   aknText, firstPdfText, result, runsStarted, faults, idsReturned,
                   stored, aknSeen, undo>>
    /\ UNCHANGED <<classifyVars, envVars, commitVars, fetchVars, storeVars, crawlVars>>

\* Lines 130-140: an image link downloads; its Image row is committed.
ImageDownloaded(t) ==
    /\ pc[t] = "images"
    /\ images' = Append(images, ImageRow(caseId[t], job[t].url, idx[t]))
    /\ undo' = [undo EXCEPT ![t] = CommitAtOnce(@, <<cases, documents, images>>)]
    /\ attempted' = [attempted EXCEPT ![t] = @ + 1]
    /\ stored' = [stored EXCEPT ![t].img = @ + 1]
    /\ idx' = [idx EXCEPT ![t] = IF @ < parsed[t].nimg THEN @ + 1 ELSE 0]
    /\ pc' = [pc EXCEPT ![t] = IF idx[t] < parsed[t].nimg THEN "images" ELSE "fallback"]
    /\ UNCHANGED <<txLock, job, attempt, parsed, caseId, pending, conflict,
                   aknText, firstPdfText, result, runsStarted, faults, idsReturned,
                   aknSeen>>
    /\ UNCHANGED <<classifyVars, envVars, commitVars, fetchVars, cases, documents, crawlVars>>

\* Lines 141-142: the download of an image link fails: continue.
ImageFailed(t) ==
    /\ pc[t] = "images"
    /\ attempted' = [attempted EXCEPT ![t] = @ + 1]
    /\ idx' = [idx EXCEPT ![t] = IF @ < parsed[t].nimg THEN @ + 1 ELSE 0]
    /\ pc' = [pc EXCEPT ![t] =
                AfterAssetFailure(IF idx[t] < parsed[t].nimg THEN "images" ELSE "fallback")]
    /\ UNCHANGED <<txLock, job, attempt, parsed, caseId, pending, conflict,
                   aknText, firstPdfText, result, runsStarted, faults, idsReturned,
                   stored, aknSeen, undo>>
    /\ UNCHANGED <<classifyVars, envVars, commitVars, fetchVars, storeVars, crawlVars>>

\* Lines 145-150: the PDF text fills a content_text that is still small.
PdfFallback(t) ==
    /\ pc[t] = "fallback"
    /\ cases' = IF PdfFallbackApplies(job[t].deep, cases[caseId[t]].text, firstPdfText[t])
                  THEN SetText(cases, caseId[t], firstPdfText[t])
                  ELSE cases
    /\ undo' = [undo EXCEPT ![t] =
                   IF PdfFallbackApplies(job[t].deep, cases[caseId[t]].text,
                                         firstPdfText[t])
                     THEN CommitAtOnce(@, <<cases, documents, images>>)
                     ELSE @]
    /\ idx' = [idx EXCEPT ![t] = 0]
    /\ pc' = [pc EXCEPT ![t] = "close"]
    /\ UNCHANGED <<txLock, job, attempt, parsed, caseId, pending, conflict,
                   aknText, firstPdfText, result, runsStarted, faults, idsReturned>>
    /\ UNCHANGED <<classifyVars, envVars, commitVars, fetchVars, documents, images, crawlVars>>
    /\ UNCHANGED <<attempted, stored, aknSeen>>

\* Line 152 and the exit of the with statement: get_session commits and
\* closes the session, _transaction_lock is released, case.id is returned.
CloseAndReturn(t) ==
    /\ pc[t] = "close"
    /\ txLock' = NoThread
    /\ result' = [result EXCEPT ![t] = caseId[t]]
    /\ undo' = [undo EXCEPT ![t] = NoUndo]
    /\ idsReturned' = [idsReturned EXCEPT ![job[t].url] = @ \cup {caseId[t]}]
    /\ pc' = [pc EXCEPT ![t] = "returned"]
    /\ UNCHANGED <<job, attempt, parsed, caseId, pending, conflict, aknText,
                   firstPdfText, idx, runsStarted, faults>>
    /\ UNCHANGED <<classifyVars, envVars, commitVars, fetchVars, storeVars, crawlVars>>
    /\ UNCHANGED <<attempted, stored, aknSeen>>

\* The caller has the id (or the RetryError); the thread is free again.
DetailDone(t) ==
    /\ pc[t] \in {"returned", "failed"}
    /\ pc' = [pc EXCEPT ![t] = "idle"]
    /\ attempt' = [attempt EXCEPT ![t] = 0]
    /\ job' = [job EXCEPT ![t] = [url |-> 1, deep |-> FALSE]]
    /\ result' = [result EXCEPT ![t] = NoCase]
    /\ ResetLocals(t)
    /\ UNCHANGED <<txLock, runsStarted, faults, idsReturned>>
    /\ UNCHANGED <<classifyVars, envVars, commitVars, fetchVars, storeVars, crawlVars>>

\* The race of lines 43-46: between the lookup of a thread and the flush of
\* its INSERT, a crawl in another process of the deployment commits the Case
\* row of the same URL.
ExternalInsert(u, p) ==
    /\ \E t \in Threads : pc[t] = "insert" /\ job[t].url = u
    /\ ~UniqueViolation(cases, u)
    /\ cases' = Append(cases, ApplyParsed(NewCase(u), p))
    /\ UNCHANGED <<classifyVars, envVars, commitVars, fetchVars, documents, images, detailVars, crawlVars>>

\* summarize_case(case_id) (api.py lines 262-285), from its session.get to
\* the commit of get_session: c.summary = summary.
SummarizeCase(i) ==
    /\ i \in 1..Len(cases)
    /\ Summarizable(cases[i])
    /\ cases' = [cases EXCEPT ![i].summary = SummaryOf(cases[i])]
    /\ UNCHANGED <<classifyVars, envVars, commitVars, fetchVars, documents, images,
                   detailVars, crawlVars>>

\* scrape_case_detail over pages that can be fetched.
NextFetched ==
    \/ \E t \in Threads, u \in URLs, d \in BOOLEAN : CallDetail(t, u, d)
    \/ \E t \in Threads, p \in ParsedPages : DetailFetchOk(t, p)
    \/ \E t \in Threads : AcquireTxLock(t)
    \/ \E t \in Threads : LookupExisting(t)
    \/ \E t \in Threads : InsertFlush(t)
    \/ \E t \in Threads : StoreContention(t)
    \/ \E t \in Threads : UpsertCommit(t)
    \/ \E t \in Threads, skipped \in BOOLEAN, n \in TextLens : AknCandidate(t, skipped, n)
    \/ \E t \in Threads : AknApply(t)
    \/ \E t \in Threads, n \in TextLens : PdfDownloaded(t, n)
    \/ \E t \in Threads : PdfFailed(t)
    \/ \E t \in Threads : ImageDownloaded(t)
    \/ \E t \in Threads : ImageFailed(t)
    \/ \E t \in Threads : PdfFallback(t)
    \/ \E t \in Threads : CloseAndReturn(t)
    \/ \E t \in Threads : DetailDone(t)
    \/ \E u \in URLs, p \in ParsedPages : ExternalInsert(u, p)

NextDetail ==
    \/ NextFetched
    \/ \E t \in Threads : DetailFetchFail(t)

\* scrape_case_detail against a store that also fails after the case upsert.
NextInterrupted ==
    \/ NextDetail
    \/ \E t \in Threads : LateFailure(t)

\* scrape_case_detail next to the summaries of the serving layer.
NextRescrape ==
    \/ NextDetail
    \/ \E i \in 1..NUrls : SummarizeCase(i)

\* =====================================================================
\* The listing site and crawl_listing (scraper.py)
\* =====================================================================

NoPage == 0          \* current_url / next_link is None
NoTarget == [kind |-> "none", n |-> 0]

ListingPages == 1..NListingPages

\* The site: listing pages 1..siteLen, each linking the next one; the last
\* page has no next link, or links back to page 1.
NextOnPage(p) ==
    IF p < siteLen THEN p + 1
    ELSE IF siteCyclic THEN 1 ELSE NoPage

\* extract_listing_links: the detail links of page p, deduplicated, in the
\* order list(detail_links) yields them. Page p links the detail pages
\* p..NUrls; even pages yield them in descending order.
LinksOnPage(p) ==
    IF p > NUrls THEN <<>>
    ELSE [i \in 1..(NUrls - p + 1) |-> IF p % 2 = 1 THEN p + i - 1 ELSE NUrls - i + 1]

\* What the site serves for the detail page u during a crawl: a fixed
\* version of the page, one XML rendition, PDFs with a short text.
SiteVersion(u) == PageVersion(u % (MaxLenUnits + 1))
SiteAkn(u) == TextOf("akn", MaxLenUnits * LenUnit)
SitePdfText(u) == TextOf("pdf", LenUnit)

\* scrape_case_detail run to its end without interference, on the table cases:
\* lookup or insert, upsert, XML enrichment, PDF fallback.
DetailCases(cs, u, deep, p, akn, pdf) ==
    LET found == LookupCase(cs, u)
        id == IF found = NoCase THEN Len(cs) + 1 ELSE found
        upserted == CommitUpsert(cs, id, found = NoCase, u, p)
        enriched == IF HasMarker(u) /\ AknWins(p.text, akn)
                      THEN SetText(upserted, id, akn) ELSE upserted
    IN  IF PdfFallbackApplies(deep, enriched[id].text, IF p.npdf > 0 THEN pdf ELSE NoText)
          THEN SetText(enriched, id, pdf) ELSE enriched

\* The rows it appends to documents and to images.
DocumentRows(id, u, n) == [i \in 1..n |-> DocumentRow(id, u, i)]
ImageRows(id, u, n) == [i \in 1..n |-> ImageRow(id, u, i)]

\* if max_pages and page_count >= max_pages: break
PageBudgetSpent(mp, count) == mp.set /\ mp.n # 0 /\ count >= mp.n

MaxPagesArgs == {[set |-> FALSE, n |-> 0]} \cup {[set |-> TRUE, n |-> k] : k \in 0..MaxPagesArg}

InitCrawl ==
    /\ siteLen \in ListingPages
    /\ siteCyclic \in BOOLEAN
    /\ cpc = "idle"
    /\ maxPages = [set |-> FALSE, n |-> 0]
    /\ crawlDeep = FALSE
    /\ currentUrl = NoPage
    /\ pageCount = 0
    /\ ids = <<>>
    /\ links = <<>>
    /\ nextLink = NoPage
    /\ linkIdx = 0
    /\ fetchCount = 0
    /\ visitedLinks = <<>>
    /\ linksTried = 0
    /\ succeeded = <<>>
    /\ entry = "none"
    /\ epc = "idle"
    /\ target = NoTarget
    /\ targetFetches = 0
    /\ candIdx = 0
    /\ allIds = <<>>
    /\ crawlsDone = <<>>
    /\ returned = <<>>

\* Lines 156-158: crawl_listing(start, max_pages, deep) starts with empty ids,
\* page_count 0 and current_url = start.
StartCrawl(start, mp, d) ==
    /\ maxPages' = mp
    /\ crawlDeep' = d
    /\ ids' = <<>>
    /\ pageCount' = 0
    /\ currentUrl' = start
    /\ cpc' = "fetch"
    /\ links' = <<>>
    /\ nextLink' = NoPage
    /\ linkIdx' = 0
    /\ fetchCount' = 0
    /\ visitedLinks' = <<>>
    /\ linksTried' = 0
    /\ succeeded' = <<>>
    /\ UNCHANGED <<siteLen, siteCyclic>>

\* The GET requests for the URL scrape_url was given, after one more request
\* for the listing page p.
FetchesAfter(p) ==
    IF entry = "scrape_url" /\ target = [kind |-> "listing", n |-> p]
      THEN targetFetches + 1 ELSE targetFetches

\* crawl_listing(start_url, max_pages, deep) is called on page 1 by the
\* serving layer (api_crawl_listing) or the command line.
CallCrawl(mp, d) ==
    /\ entry = "none"
    /\ cpc = "idle"
    /\ entry' = "crawl_listing"
    /\ StartCrawl(1, mp, d)
    /\ UNCHANGED <<epc, target, targetFetches, candIdx, allIds, crawlsDone, returned>>
    /\ UNCHANGED <<classifyVars, envVars, commitVars, fetchVars, storeVars, detailVars>>

\* Lines 159-162: while current_url: the page is fetched, links and next_link
\* are extracted.
CrawlFetchOk ==
    /\ cpc = "fetch"
    /\ fetchCount < MaxFetches
    /\ fetchCount' = fetchCount + 1
    /\ links' = LinksOnPage(currentUrl)
    /\ nextLink' = NextOnPage(currentUrl)
    /\ visitedLinks' = visitedLinks \o LinksOnPage(currentUrl)
    /\ linkIdx' = 1
    /\ cpc' = "links"
    /\ targetFetches' = FetchesAfter(currentUrl)
    /\ UNCHANGED <<siteLen, siteCyclic, maxPages, crawlDeep, currentUrl, pageCount,
                   ids, linksTried, succeeded>>
    /\ UNCHANGED <<entry, epc, target, candIdx, allIds, crawlsDone, returned>>
    /\ UNCHANGED <<classifyVars, envVars, commitVars, fetchVars, storeVars, detailVars>>

\* Line 160: http_client.get gave up; nothing in crawl_listing catches it.
CrawlFetchFail ==
    /\ cpc = "fetch"
    /\ fetchCount < MaxFetches
    /\ fetchCount' = fetchCount + 1
    /\ cpc' = "raised"
    /\ targetFetches' = FetchesAfter(currentUrl)
    /\ UNCHANGED <<siteLen, siteCyclic, maxPages, crawlDeep, currentUrl, pageCount,
                   ids, links, nextLink, linkIdx, visitedLinks, linksTried, succeeded>>
    /\ UNCHANGED <<entry, epc, target, candIdx, allIds, crawlsDone, returned>>
    /\ UNCHANGED <<classifyVars, envVars, commitVars, fetchVars, storeVars, detailVars>>

\* A loop that walks the links backwards.
LinkAtReversed(ls, i) == ls[Len(ls) - i + 1]

\* for href in links: the link the loop is at.
LinkAt(ls, i) == ls[i]

\* ids.append(case_id)
IdsAfterSuccess(cur, id) == Append(cur, id)

\* Lines 164-167: scrape_case_detail returns the Case id, which is appended.
CrawlDetailOk ==
    /\ cpc = "links"
    /\ linkIdx <= Len(links)
    /\ LET u == LinkAt(links, linkIdx)
           p == SiteVersion(u)
           after == DetailCases(cases, u, crawlDeep, p, SiteAkn(u), SitePdfText(u))
           id == LookupCase(after, u)
       IN  /\ cases' = after
           /\ documents' = documents \o DocumentRows(id, u, p.npdf)
           /\ images' = images \o ImageRows(id, u, p.nimg)
           /\ ids' = IdsAfterSuccess(ids, id)
           /\ succeeded' = Append(succeeded, u)
    /\ linksTried' = linksTried + 1
    /\ linkIdx' = linkIdx + 1
    /\ UNCHANGED <<siteLen, siteCyclic, cpc, maxPages, crawlDeep, currentUrl,
                   pageCount, links, nextLink, fetchCount, visitedLinks>>
    /\ UNCHANGED <<classifyVars, envVars, commitVars, fetchVars, detailVars, entryVars>>

\* A loop that lets the failure of a detail page propagate.
AbortOnDetailFailure == "raised"

\* except Exception: continue
AfterDetailFailure == "links"

\* Lines 168-169: scrape_case_detail raised (its page could not be fetched in
\* three attempts): the link is skipped.
CrawlDetailFail ==
    /\ cpc = "links"
    /\ linkIdx <= Len(links)
    /\ Len(succeeded) + MaxFaults > linksTried
    /\ linksTried' = linksTried + 1
    /\ linkIdx' = linkIdx + 1
    /\ cpc' = AfterDetailFailure
    /\ UNCHANGED <<siteLen, siteCyclic, maxPages, crawlDeep, currentUrl, pageCount,
                   ids, links, nextLink, fetchCount, visitedLinks, succeeded>>
    /\ UNCHANGED <<classifyVars, envVars, commitVars, fetchVars, storeVars, detailVars, entryVars>>

\* Lines 171-174: page_count += 1; break on the page budget; else follow
\* next_link, and leave the loop when there is none.
CrawlAdvance ==
    /\ cpc = "links"
    /\ linkIdx > Len(links)
    /\ pageCount' = pageCount + 1
    /\ IF PageBudgetSpent(maxPages, pageCount + 1)
         THEN /\ cpc' = "done"
              /\ UNCHANGED currentUrl
         ELSE /\ currentUrl' = nextLink
              /\ cpc' = IF nextLink = NoPage THEN "done" ELSE "fetch"
    /\ UNCHANGED <<siteLen, siteCyclic, maxPages, crawlDeep, ids, links, nextLink,
                   linkIdx, fetchCount, visitedLinks, linksTried, succeeded>>
    /\ UNCHANGED <<classifyVars, envVars, commitVars, fetchVars, storeVars, detailVars, entryVars>>

\* =====================================================================
\* scrape_url (scraper.py)
\* =====================================================================

\* The URLs scrape_url is given: the first listing page or a detail page.
Targets == {[kind |-> "listing", n |-> 1]} \cup {[kind |-> "detail", n |-> u] : u \in URLs}

\* What is_listing_page looks at in a page: the anchors a[rel='next'] select
\* finds, and the elements of each class of the selector group
\* ".result, .results, .list, .search-results, .card" (an element is taken to
\* bear one of these classes, so that select finds it once).
ContainerClasses == {"result", "results", "list", "search-results", "card"}

Pages == [next : 0..MaxNextAnchors, count : [ContainerClasses -> 0..MaxPerClass]]

\* len(soup.select(".result, .results, .list, .search-results, .card"))
Containers(p) ==
    p.count["result"] + p.count["results"] + p.count["list"]
      + p.count["search-results"] + p.count["card"]

\* A classification by the result containers alone.
ContainersOnly(p) == Containers(p) >= ListingMinContainers

\* is_listing_page(html), kenyalaw.py lines 24-32.
is_listing_page(p) ==
    IF p.next > 0 THEN TRUE
    ELSE IF Containers(p) >= ListingMinContainers THEN TRUE
    ELSE FALSE

\* The pages of the site, as is_listing_page sees them: a listing page
\* carries its result cards and a rel=next anchor when a page follows; a
\* detail page has neither.
ListingContent(n) ==
    [next |-> IF NextOnPage(n) # NoPage THEN 1 ELSE 0,
     count |-> [c \in ContainerClasses |->
                  IF c = "card" THEN ListingMinContainers ELSE 0]]
DetailContent == [next |-> 0, count |-> [c \in ContainerClasses |-> 0]]
PageOf(tg) == IF tg.kind = "listing" THEN ListingContent(tg.n) ELSE DetailContent

NoVerdict == [called |-> FALSE, value |-> FALSE]

\* is_listing_page is not part of the run.
NoClassify == page = DetailContent /\ verdict = NoVerdict

\* is_listing_page is handed one of the pages.
InitClassify == page \in Pages /\ verdict = NoVerdict

\* is_listing_page(page) is called and returns.
Classify ==
    /\ ~verdict.called
    /\ verdict' = [called |-> TRUE, value |-> is_listing_page(page)]
    /\ UNCHANGED page
    /\ UNCHANGED <<fetchVars, storeVars, detailVars, crawlVars, commitVars, envVars>>

NextClassify == Classify

MaxPagesUnset == [set |-> FALSE, n |-> 0]

\* scrape_url(url, deep) is called.
ScrapeUrlCall(tg, d) ==
    /\ entry = "none"
    /\ cpc = "idle"
    /\ entry' = "scrape_url"
    /\ epc' = "fetch"
    /\ target' = tg
    /\ crawlDeep' = d
    /\ UNCHANGED <<siteLen, siteCyclic, cpc, maxPages, currentUrl, pageCount, ids,
                   links, nextLink, linkIdx, fetchCount, visitedLinks, linksTried,
                   succeeded>>
    /\ UNCHANGED <<targetFetches, candIdx, allIds, crawlsDone, returned>>
    /\ UNCHANGED <<classifyVars, envVars, commitVars, fetchVars, storeVars, detailVars>>

\* Lines 180-181: resp = http_client.get(url); the snapshot is saved.
ScrapeUrlFetchOk ==
    /\ entry = "scrape_url"
    /\ epc = "fetch"
    /\ targetFetches' = targetFetches + 1
    /\ epc' = "route"
    /\ UNCHANGED <<siteLen, siteCyclic, cpc, maxPages, crawlDeep, currentUrl,
                   pageCount, ids, links, nextLink, linkIdx, fetchCount,
                   visitedLinks, linksTried, succeeded>>
    /\ UNCHANGED <<entry, target, candIdx, allIds, crawlsDone, returned>>
    /\ UNCHANGED <<classifyVars, envVars, commitVars, fetchVars, storeVars, detailVars>>

\* Line 180: http_client.get gave up; scrape_url raises.
ScrapeUrlFetchFail ==
    /\ entry = "scrape_url"
    /\ epc = "fetch"
    /\ targetFetches' = targetFetches + 1
    /\ epc' = "raised"
    /\ UNCHANGED <<siteLen, siteCyclic, cpc, maxPages, crawlDeep, currentUrl,
                   pageCount, ids, links, nextLink, linkIdx, fetchCount,
                   visitedLinks, linksTried, succeeded>>
    /\ UNCHANGED <<entry, target, candIdx, allIds, crawlsDone, returned>>
    /\ UNCHANGED <<classifyVars, envVars, commitVars, fetchVars, storeVars, detailVars>>

\* Lines 182-183: a listing page: crawl_listing(resp.url, deep=deep) is called
\* with the URL, not with the page.
ScrapeUrlToListing ==
    /\ entry = "scrape_url"
    /\ epc = "route"
    /\ is_listing_page(PageOf(target))
    /\ StartCrawl(target.n, MaxPagesUnset, crawlDeep)
    /\ epc' = "crawl"
    /\ UNCHANGED <<entry, target, targetFetches, candIdx, allIds, crawlsDone, returned>>
    /\ UNCHANGED <<classifyVars, envVars, commitVars, fetchVars, storeVars, detailVars>>

\* Lines 184-185: any other page: scrape_case_detail(resp.url, deep=deep) is
\* called with the URL; its line 26 requests the page and it returns the id.
ScrapeUrlDetailOk ==
    /\ entry = "scrape_url"
    /\ epc = "route"
    /\ ~is_listing_page(PageOf(target))
    /\ targetFetches' = targetFetches + 1
    /\ LET u == target.n
           p == SiteVersion(u)
           after == DetailCases(cases, u, crawlDeep, p, SiteAkn(u), SitePdfText(u))
           id == LookupCase(after, u)
       IN  /\ cases' = after
           /\ documents' = documents \o DocumentRows(id, u, p.npdf)
           /\ images' = images \o ImageRows(id, u, p.nimg)
           /\ returned' = <<id>>
    /\ epc' = "done"
    /\ UNCHANGED <<siteLen, siteCyclic, cpc, maxPages, crawlDeep, currentUrl,
                   pageCount, ids, links, nextLink, linkIdx, fetchCount,
                   visitedLinks, linksTried, succeeded>>
    /\ UNCHANGED <<entry, target, candIdx, allIds, crawlsDone>>
    /\ UNCHANGED <<classifyVars, envVars, commitVars, fetchVars, detailVars>>

\* Lines 184-185: scrape_case_detail requests the page and gives up after its
\* attempts; scrape_url raises.
ScrapeUrlDetailFail ==
    /\ entry = "scrape_url"
    /\ epc = "route"
    /\ ~is_listing_page(PageOf(target))
    /\ targetFetches' = targetFetches + 1
    /\ epc' = "raised"
    /\ UNCHANGED <<siteLen, siteCyclic, cpc, maxPages, crawlDeep, currentUrl,
                   pageCount, ids, links, nextLink, linkIdx, fetchCount,
                   visitedLinks, linksTried, succeeded>>
    /\ UNCHANGED <<entry, target, candIdx, allIds, crawlsDone, returned>>
    /\ UNCHANGED <<classifyVars, envVars, commitVars, fetchVars, storeVars, detailVars>>

\* Line 183: crawl_listing is over: its ids are returned, or its exception
\* leaves scrape_url.
ScrapeUrlAfterCrawl ==
    /\ entry = "scrape_url"
    /\ epc = "crawl"
    /\ cpc \in {"done", "raised"}
    /\ epc' = IF cpc = "done" THEN "done" ELSE "raised"
    /\ returned' = IF cpc = "done" THEN ids ELSE returned
    /\ UNCHANGED <<siteLen, siteCyclic, cpc, maxPages, crawlDeep, currentUrl,
                   pageCount, ids, links, nextLink, linkIdx, fetchCount,
                   visitedLinks, linksTried, succeeded>>
    /\ UNCHANGED <<entry, target, targetFetches, candIdx, allIds, crawlsDone>>
    /\ UNCHANGED <<classifyVars, envVars, commitVars, fetchVars, storeVars, detailVars>>

NextCrawl ==
    \/ \E mp \in MaxPagesArgs, d \in BOOLEAN : CallCrawl(mp, d)
    \/ CrawlFetchOk
    \/ CrawlFetchFail
    \/ CrawlDetailOk
    \/ CrawlDetailFail
    \/ CrawlAdvance
    \/ \E tg \in Targets, d \in BOOLEAN : ScrapeUrlCall(tg, d)
    \/ ScrapeUrlFetchOk
    \/ ScrapeUrlFetchFail
    \/ ScrapeUrlToListing
    \/ ScrapeUrlDetailOk
    \/ ScrapeUrlDetailFail
    \/ ScrapeUrlAfterCrawl

\* =====================================================================
\* search_and_scrape (scraper.py)
\* =====================================================================

\* list(dict.fromkeys(s)): every value once, at the place of its first
\* occurrence.
RECURSIVE DictFromKeys(_)
DictFromKeys(s) ==
    IF s = <<>> THEN <<>>
    ELSE LET front == DictFromKeys(SubSeq(s, 1, Len(s) - 1))
             last == s[Len(s)]
         IN  IF \E i \in 1..Len(front) : front[i] = last
               THEN front ELSE Append(front, last)

\* A result that keeps the duplicates.
KeepDuplicates(s) == s

\* Line 207: return list(dict.fromkeys(all_ids))
SearchResult(s) == DictFromKeys(s)

\* search_and_scrape(query, start_url, deep) is called. Lines 194-199.
SearchCall(d) ==
    /\ entry = "none"
    /\ cpc = "idle"
    /\ entry' = "search_and_scrape"
    /\ epc' = "candidates"
    /\ candIdx' = 1
    /\ allIds' = <<>>
    /\ crawlDeep' = d
    /\ UNCHANGED <<siteLen, siteCyclic, cpc, maxPages, currentUrl, pageCount, ids,
                   links, nextLink, linkIdx, fetchCount, visitedLinks, linksTried,
                   succeeded>>
    /\ UNCHANGED <<target, targetFetches, crawlsDone, returned>>
    /\ UNCHANGED <<classifyVars, envVars, commitVars, fetchVars, storeVars, detailVars>>

\* Lines 200-202: crawl_listing(url, max_pages=3, deep=deep) for the next
\* candidate; the site answers the candidate URL with one of its listing pages.
SearchCrawl(start) ==
    /\ entry = "search_and_scrape"
    /\ epc = "candidates"
    /\ candIdx <= NSearchCandidates
    /\ start <= siteLen
    /\ StartCrawl(start, [set |-> TRUE, n |-> SearchMaxPages], crawlDeep)
    /\ epc' = "crawl"
    /\ UNCHANGED <<entry, target, targetFetches, candIdx, allIds, crawlsDone, returned>>
    /\ UNCHANGED <<classifyVars, envVars, commitVars, fetchVars, storeVars, detailVars>>

\* Lines 203-206: the ids of a crawl that returned are added to all_ids; a
\* crawl that raised is passed over.
SearchCollect ==
    /\ entry = "search_and_scrape"
    /\ epc = "crawl"
    /\ cpc \in {"done", "raised"}
    /\ allIds' = IF cpc = "done" THEN allIds \o ids ELSE allIds
    /\ crawlsDone' = Append(crawlsDone,
                            [raised |-> cpc = "raised", ids |-> ids,
                             maxPages |-> maxPages, fetches |-> fetchCount])
    /\ candIdx' = candIdx + 1
    /\ epc' = "candidates"
    /\ UNCHANGED <<siteLen, siteCyclic, cpc, maxPages, crawlDeep, currentUrl,
                   pageCount, ids, links, nextLink, linkIdx, fetchCount,
                   visitedLinks, linksTried, succeeded>>
    /\ UNCHANGED <<entry, target, targetFetches, returned>>
    /\ UNCHANGED <<classifyVars, envVars, commitVars, fetchVars, storeVars, detailVars>>

\* Line 207: the loop is over.
SearchReturn ==
    /\ entry = "search_and_scrape"
    /\ epc = "candidates"
    /\ candIdx > NSearchCandidates
    /\ returned' = SearchResult(allIds)
    /\ epc' = "done"
    /\ UNCHANGED <<siteLen, siteCyclic, cpc, maxPages, crawlDeep, currentUrl,
                   pageCount, ids, links, nextLink, linkIdx, fetchCount,
                   visitedLinks, linksTried, succeeded>>
    /\ UNCHANGED <<entry, target, targetFetches, candIdx, allIds, crawlsDone>>
    /\ UNCHANGED <<classifyVars, envVars, commitVars, fetchVars, storeVars, detailVars>>

NextSearch ==
    \/ \E d \in BOOLEAN : SearchCall(d)
    \/ \E start \in ListingPages : SearchCrawl(start)
    \/ CrawlFetchOk
    \/ CrawlFetchFail
    \/ CrawlDetailOk
    \/ CrawlDetailFail
    \/ CrawlAdvance
    \/ SearchCollect
    \/ SearchReturn

\* =====================================================================
\* The sessions of get_session (db.py) and db_write_lock
\* =====================================================================

\* The flushes and commits of scrape_case_detail, in program order: the case
\* upsert (lines 61-64), the XML overwrite (98-100), a Document insert
\* (114-116), an Image insert (138-140), the PDF fallback (148-150), and the
\* session.commit() of get_session when the with statement is left.
ScrapeSites == <<"upsert", "enrichment", "document", "image", "fallback", "closing">>

\* Those of summarize_case (api.py): the flush of the summary, then the
\* session.commit() of get_session, which commits it.
SummarizeSites == <<"summary", "closing">>

SitesOf(h) == IF h = "scrape_case_detail" THEN ScrapeSites ELSE SummarizeSites

\* The sites written inside `with db_write_lock:`.
UnderWriteLock == {"upsert", "enrichment", "document", "image", "fallback", "summary"}

\* The sites that end in session.commit(); the summary is only flushed.
Committed == {"upsert", "enrichment", "document", "image", "fallback", "closing"}

\* The sites a run may pass over: no longer XML text, no PDF link, no image
\* link, no PDF text to fall back on.
Optional == {"enrichment", "document", "image", "fallback"}

PositionOf(h, x) == CHOOSE i \in 1..Len(SitesOf(h)) : SitesOf(h)[i] = x

\* The sites that can follow site x: the next ones, up to and including the
\* first that cannot be passed over.
Following(h, x) ==
    {SitesOf(h)[j] : j \in {k \in (PositionOf(h, x) + 1)..Len(SitesOf(h)) :
                               \A m \in (PositionOf(h, x) + 1)..(k - 1) :
                                   SitesOf(h)[m] \in Optional}}

InitCommit ==
    /\ dbWriteLock = NoThread
    /\ handler = [t \in Threads |-> "none"]
    /\ site = [t \in Threads |-> "none"]
    /\ wpc = [t \in Threads |-> "idle"]
    /\ exited = [t \in Threads |-> [h |-> "none", by |-> "never"]]

\* A thread of the serving layer enters scrape_case_detail (it takes
\* _transaction_lock, line 32, and opens its session) or summarize_case (it
\* opens its session), and runs up to its first flush.
OpenSession(t, h) ==
    /\ wpc[t] = "idle"
    /\ h = "scrape_case_detail" => TxLockFree(txLock)
    /\ txLock' = IF h = "scrape_case_detail" THEN t ELSE txLock
    /\ handler' = [handler EXCEPT ![t] = h]
    /\ site' = [site EXCEPT ![t] = SitesOf(h)[1]]
    /\ wpc' = [wpc EXCEPT ![t] = "at"]
    /\ UNCHANGED <<dbWriteLock, exited, pc, job, attempt, parsed, caseId, pending, conflict,
                   aknText, firstPdfText, idx, result, runsStarted, faults,
                   idsReturned, attempted, stored, aknSeen, undo>>
    /\ UNCHANGED <<fetchVars, storeVars, crawlVars, envVars, classifyVars>>

\* with db_write_lock: the thread waits until the lock is free.
AcquireWriteLock(t) ==
    /\ wpc[t] = "at"
    /\ site[t] \in UnderWriteLock
    /\ dbWriteLock = NoThread
    /\ dbWriteLock' = t
    /\ wpc' = [wpc EXCEPT ![t] = "locked"]
    /\ UNCHANGED <<handler, site, exited>>
    /\ UNCHANGED <<fetchVars, storeVars, detailVars, crawlVars, envVars, classifyVars>>

\* session.commit() is entered: from inside `with db_write_lock` at the sites
\* written there, straight away at the closing commit of get_session.
BeginCommit(t) ==
    /\ site[t] \in Committed
    /\ wpc[t] = IF site[t] \in UnderWriteLock THEN "locked" ELSE "at"
    /\ wpc' = [wpc EXCEPT ![t] = "committing"]
    /\ UNCHANGED <<dbWriteLock, handler, site, exited>>
    /\ UNCHANGED <<fetchVars, storeVars, detailVars, crawlVars, envVars, classifyVars>>

\* The flush or commit is over; db_write_lock is released where it was taken.
\* The thread runs on to its next flush or commit; after the closing commit
\* the session is closed and _transaction_lock released.
EndWrite(t, next) ==
    /\ wpc[t] = IF site[t] \in Committed THEN "committing" ELSE "locked"
    /\ dbWriteLock' = IF dbWriteLock = t THEN NoThread ELSE dbWriteLock
    /\ IF site[t] = "closing"
         THEN /\ next = "none"
              /\ wpc' = [wpc EXCEPT ![t] = "idle"]
              /\ handler' = [handler EXCEPT ![t] = "none"]
              /\ txLock' = IF txLock = t THEN NoThread ELSE txLock
              /\ exited' = [exited EXCEPT ![t] = [h |-> handler[t], by |-> "return"]]
         ELSE /\ next \in Following(handler[t], site[t])
              /\ wpc' = [wpc EXCEPT ![t] = "at"]
              /\ UNCHANGED <<handler, txLock, exited>>
    /\ site' = [site EXCEPT ![t] = next]
    /\ UNCHANGED <<pc, job, attempt, parsed, caseId, pending, conflict,
                   aknText, firstPdfText, idx, result, runsStarted, faults,
                   idsReturned, attempted, stored, aknSeen, undo>>
    /\ UNCHANGED <<fetchVars, storeVars, crawlVars, envVars, classifyVars>>

\* The sites whose exceptions scrape_case_detail swallows: the XML overwrite
\* (lines 101-102) and the asset loops (lines 126-127, 141-142).
Swallowed == {"enrichment", "document", "image"}

\* A lock taken with acquire() and released only on the normal path.
KeptOnException(owner, t) == owner

\* The exit of a with statement, whichever way the block is left: the lock
\* is released by the thread that holds it.
ReleasedOnExit(owner, t) == IF owner = t THEN NoThread ELSE owner

\* A flush or a commit raises (OperationalError). `with db_write_lock`
\* releases the lock. Where the exception is swallowed the flow goes on to
\* its next flush or commit; elsewhere it leaves the function: get_session
\* rolls back and closes (db.py lines 128-132), `with _transaction_lock`
\* (line 32) releases, and the retry wrapper or the caller has the exception.
WriteFails(t, next) ==
    /\ wpc[t] \in {"locked", "committing"}
    /\ dbWriteLock' = ReleasedOnExit(dbWriteLock, t)
    /\ IF site[t] \in Swallowed
         THEN /\ next \in Following(handler[t], site[t])
              /\ wpc' = [wpc EXCEPT ![t] = "at"]
              /\ UNCHANGED <<handler, txLock, exited>>
         ELSE /\ next = "none"
              /\ wpc' = [wpc EXCEPT ![t] = "idle"]
              /\ handler' = [handler EXCEPT ![t] = "none"]
              /\ txLock' = ReleasedOnExit(txLock, t)
              /\ exited' = [exited EXCEPT ![t] = [h |-> handler[t], by |-> "exception"]]
    /\ site' = [site EXCEPT ![t] = next]
    /\ UNCHANGED <<pc, job, attempt, parsed, caseId, pending, conflict,
                   aknText, firstPdfText, idx, result, runsStarted, faults,
                   idsReturned, attempted, stored, aknSeen, undo>>
    /\ UNCHANGED <<fetchVars, storeVars, crawlVars, envVars, classifyVars>>

NextCommit ==
    \/ \E t \in Threads, h \in {"scrape_case_detail", "summarize_case"} : OpenSession(t, h)
    \/ \E t \in Threads : AcquireWriteLock(t)
    \/ \E t \in Threads : BeginCommit(t)
    \/ \E t \in Threads, next \in {"none"} \cup Committed : EndWrite(t, next)
    \/ \E t \in Threads, next \in {"none"} \cup Committed : WriteFails(t, next)

\* =====================================================================
\* Specifications
\* =====================================================================

\* The listing site is not part of the runs that do not crawl.
NoCrawl == InitCrawl /\ siteLen = 1 /\ ~siteCyclic

\* The calls and the failures a run may see, the PDF links of its pages.
InitEnv(runs, budget, npdf) ==
    /\ runBudget = runs
    /\ faultBudget = budget
    /\ pdfLinks = npdf

Init ==
    /\ InitFetcherFor(Threads) /\ InitStore /\ InitDetail /\ NoCrawl /\ InitCommit
    /\ InitEnv(MaxRuns, MaxFaults, MaxPdfLinks) /\ NoClassify
InitFetch ==
    /\ InitFetcherFor(Threads) /\ InitStore /\ InitDetail /\ NoCrawl /\ InitCommit
    /\ InitEnv(MaxRuns, MaxFaults, MaxPdfLinks) /\ NoClassify
InitFetchSingle ==
    /\ InitFetcherFor({1}) /\ InitStore /\ InitDetail /\ NoCrawl /\ InitCommit
    /\ InitEnv(MaxRuns, MaxFaults, MaxPdfLinks) /\ NoClassify
InitCrawling ==
    /\ InitFetcherFor(Threads) /\ InitStore /\ InitDetail /\ InitCrawl /\ InitCommit
    /\ InitEnv(MaxRuns, MaxFaults, MaxPdfLinks) /\ NoClassify
InitFlow ==
    /\ InitFetcherFor({1}) /\ InitStore /\ InitDetail /\ NoCrawl /\ InitCommit
    /\ InitEnv(MaxRuns, MaxFaults, MaxPdfLinks) /\ NoClassify

InitRetry ==
    /\ InitFetcherFor({1}) /\ InitStore /\ InitDetail /\ NoCrawl /\ InitCommit
    /\ InitEnv(1, DetailMaxAttempts, MaxPdfLinks) /\ NoClassify
InitInterrupt ==
    /\ InitFetcherFor({1}) /\ InitStore /\ InitDetail /\ NoCrawl /\ InitCommit
    /\ InitEnv(1, MaxFaults, ManyPdfLinks) /\ NoClassify
InitClassifying ==
    /\ InitFetcherFor(Threads) /\ InitStore /\ InitDetail /\ NoCrawl /\ InitCommit
    /\ InitEnv(MaxRuns, MaxFaults, MaxPdfLinks) /\ InitClassify

\* Threads of one process run scrape_case_detail against the shared store.
Spec == Init /\ [][NextDetail]_vars
\* One thread runs scrape_case_detail, one call after the other.
SpecFlow == InitFlow /\ [][NextDetail]_vars
\* One crawl_listing runs over the listing site.
SpecCrawl == InitCrawling /\ [][NextCrawl]_vars
\* One search_and_scrape runs over the listing site.
SpecSearch == InitCrawling /\ [][NextSearch]_vars
\* Threads commit through their sessions: scrape_case_detail, summarize_case.
SpecCommit == Init /\ [][NextCommit]_vars
\* Several threads share the fetcher.
SpecFetch == InitFetch /\ [][NextFetch]_vars
\* A single caller issues its fetches back-to-back.
SpecFetchSingle == InitFetchSingle /\ [][NextFetch]_vars
\* One thread runs one scrape_case_detail; its page can be fetched, the store
\* is contended as often as the retry wrapper has attempts.
SpecRetry == InitRetry /\ [][NextFetched]_vars
\* One thread runs one scrape_case_detail over a page of several PDFs; the
\* store may fail after the case upsert as well.
SpecInterrupt == InitInterrupt /\ [][NextInterrupted]_vars
\* One thread runs scrape_case_detail while cases are summarised.
SpecRescrape == InitFlow /\ [][NextRescrape]_vars
\* is_listing_page is applied to a page.
SpecClassify == InitClassifying /\ [][NextClassify]_vars

\* =====================================================================
\* Properties
\* =====================================================================

\* C1: the store holds at most one Case row per url; every run of
\* scrape_case_detail returns the id of the row of its url, and all runs on
\* one url return the same id.
OneCasePerUrl ==
    /\ \A i, j \in 1..Len(cases) : cases[i].url = cases[j].url => i = j
    /\ \A u \in URLs : Cardinality(idsReturned[u]) <= 1
    /\ \A t \in Threads :
         pc[t] = "returned" =>
            /\ result[t] \in 1..Len(cases)
            /\ cases[result[t]].url = job[t].url

\* Two runs have completed without a fault and the store holds one row: the
\* second run found the Case of the first.
RerunOnSameUrl ==
    /\ runsStarted = 2
    /\ faults = 0
    /\ Len(cases) = 1
    /\ \A t \in Threads : pc[t] \in {"idle", "returned"}
    /\ \E t \in Threads : pc[t] = "returned" /\ result[t] = 1

\* C2: the length of a stored content_text never decreases, except when the
\* PDF-derived text replaces a text shorter than 800 characters.
ContentTextNeverShrinks ==
    [][\A i \in 1..Len(cases) :
         \/ cases'[i].text.len >= cases[i].text.len
         \/ /\ cases'[i].text.src = "pdf"
            /\ cases[i].text.len < PdfFallbackMinLen]_vars

\* C3: a crawl called with max_pages = N issues at most N listing-page
\* fetches, for every N >= 0.
MaxPagesBoundsFetches == maxPages.set => fetchCount <= maxPages.n

\* C4: at most one thread is between its lookup and its closing commit, and
\* while a thread is past its upsert the row carries its own title and one of
\* its own texts.
TxStepsNeverInterleave ==
    /\ \A t1, t2 \in Threads : (pc[t1] \in InTx /\ pc[t2] \in InTx) => t1 = t2
    /\ \A t \in Threads :
         pc[t] \in {"akn", "pdfs", "images", "fallback", "close"} =>
            /\ cases[caseId[t]].title = parsed[t].title
            /\ cases[caseId[t]].text \in {parsed[t].text, firstPdfText[t]}

\* One thread is past its upsert while another, with a page of the same URL
\* in hand, waits for the lock.
WaitingBehindUpsert ==
    \E t1, t2 \in Threads :
        /\ t1 # t2
        /\ pc[t1] \in {"akn", "pdfs", "images", "fallback", "close"}
        /\ pc[t2] = "lock"
        /\ job[t1].url = job[t2].url
        /\ parsed[t1].title # parsed[t2].title

\* C5: after the INSERT hit the unique constraint the flow holds the row that
\* won, has nothing pending, applies its parsed fields to that row and
\* returns its id; the url still has one row.
ConflictRecovered ==
    \A t \in Threads :
        conflict[t] =>
            /\ pc[t] \in {"assign", "akn", "pdfs", "images", "fallback", "close", "returned"}
            /\ ~pending[t]
            /\ caseId[t] \in 1..Len(cases)
            /\ cases[caseId[t]].url = job[t].url
            /\ Cardinality({i \in 1..Len(cases) : cases[i].url = job[t].url}) = 1
            /\ pc[t] \in {"akn", "pdfs", "images", "fallback", "close"} =>
                  cases[caseId[t]].title = parsed[t].title
            /\ pc[t] = "returned" => result[t] = caseId[t]

\* A flow whose INSERT lost the race has returned.
ReturnedAfterConflict == \E t \in Threads : conflict[t] /\ pc[t] = "returned"

\* C6: with a single caller, each dispatch comes at least min_interval after
\* the one before, so N dispatches span at least (N-1) * min_interval.
SingleCallerPaced ==
    dispatchCount >= 2 =>
        /\ lastDispatch - prevDispatch >= MinInterval
        /\ lastDispatch - firstDispatch >= (dispatchCount - 1) * MinInterval

\* The caller has dispatched three requests, the last one right at the end
\* of the sleep of the gate.
ThreePacedDispatches ==
    /\ callers = {1}
    /\ dispatchCount = 3
    /\ lastDispatch - prevDispatch = MinInterval

\* C7: whichever threads issue them, two dispatches are at least
\* min_interval apart.
AllCallersPaced == dispatchCount >= 2 => lastDispatch - prevDispatch >= MinInterval

\* C8: a call makes at most 3 attempts; it raises only after 3 failed ones;
\* it returns on its first successful one, all earlier ones having failed.
RetriedUpToThreeTimes ==
    \A t \in Threads :
        /\ Len(outcomes[t]) <= FetchMaxAttempts
        /\ \A i \in 1..Len(outcomes[t]) :
               outcomes[t][i] = "ok" => (i = Len(outcomes[t]) /\ hpc[t] = "returned")
        /\ hpc[t] = "raised" =>
               outcomes[t] = [i \in 1..FetchMaxAttempts |-> "fail"]
        /\ hpc[t] = "returned" => outcomes[t][Len(outcomes[t])] = "ok"
        /\ hpc[t] \in {"sent", "returned", "raised"} => Len(outcomes[t]) <=  attemptNumber[t]

\* A download has raised after its third failed attempt.
RaisedAfterThreeFailures ==
    \E t \in Threads :
        hpc[t] = "raised" /\ hkind[t] = "download" /\ Len(outcomes[t]) = 3

DetailFailureSwallowed ==
    /\ cpc \in {"done", "raised"} => linksTried = Len(visitedLinks)
    /\ cpc = "done" =>
          /\ Len(ids) = Len(succeeded)
          /\ \A i \in 1..Len(ids) :
                /\ ids[i] \in 1..Len(cases)
                /\ cases[ids[i]].url = succeeded[i]

\* A crawl has ended after a detail link of its first page failed and links
\* of the page after it were scraped.
CrawlSurvivedFailure ==
    /\ cpc = "done"
    /\ pageCount = 2
    /\ linksTried = 3
    /\ Len(ids) = 2
    /\ succeeded[1] = visitedLinks[2]

\* C11: the failure of a listing-page fetch does not make crawl_listing
\* raise: the crawl still ends by returning the ids it has collected.
ListingFetchFailureSkipped == cpc # "raised"

\* C12: a failed PDF or image download does not end the flow: once the asset
\* loops are over every PDF and image link of the page has been attempted,
\* whatever failed; the Case row is in the store all along and its id is what
\* the flow returns.
AssetFailureSwallowed ==
    \A t \in Threads :
        /\ pc[t] \in {"pdfs", "images", "fallback", "close", "returned"} =>
              /\ caseId[t] \in 1..Len(cases)
              /\ cases[caseId[t]].url = job[t].url
              /\ stored[t].doc + stored[t].img <= attempted[t]
        /\ pc[t] \in {"fallback", "close", "returned"} =>
              attempted[t] = parsed[t].npdf + parsed[t].nimg
        /\ pc[t] = "returned" => result[t] = caseId[t]

\* A flow has returned whose PDF failed to download and whose image, tried
\* after it, was stored.
ReturnedAfterPdfFailure ==
    \E t \in Threads :
        /\ pc[t] = "returned"
        /\ parsed[t].npdf = 1 /\ parsed[t].nimg = 1
        /\ attempted[t] = 2
        /\ stored[t] = [doc |-> 0, img |-> 1]
        /\ result[t] \in 1..Len(cases)

\* C13: with deep and the marker in the URL, akn_text is the longest non-empty
\* text the candidates parsed so far have yielded, and when the loop is over
\* content_text becomes that text exactly when it is longer than the HTML
\* text, and stays the HTML text otherwise.
EnrichmentKeepsLongest ==
    [][\A t \in Threads :
          (pc[t] = "akn" /\ job[t].deep /\ HasMarker(job[t].url)) =>
             LET best == IF \A x \in aknSeen[t] : x.len = 0 THEN NoText
                         ELSE CHOOSE x \in aknSeen[t] : \A y \in aknSeen[t] : y.len <= x.len
             IN  /\ aknText[t] = best
                 /\ pc'[t] # "akn" =>
                       cases'[caseId[t]].text =
                          IF best.len > parsed[t].text.len THEN best ELSE parsed[t].text]_vars

\* A deep flow on a page whose HTML text has LenUnit characters has stored
\* the XML text of 2 * LenUnit characters.
XmlTextReplacedShorterHtml ==
    \E t \in Threads :
        /\ job[t].deep /\ HasMarker(job[t].url)
        /\ pc[t] \in {"pdfs", "images", "fallback"}
        /\ parsed[t].title = 1
        /\ cases[caseId[t]].text = [src |-> "akn", len |-> 2 * LenUnit]

\* C14: a flow run with deep = FALSE requests no XML candidate, extracts no
\* PDF text, and leaves the HTML text of the page on the Case.
NoEnrichmentWithoutDeep ==
    \A t \in Threads :
        (~job[t].deep /\ pc[t] \in {"akn", "pdfs", "images", "fallback", "close"}) =>
            /\ pc[t] = "akn" => idx[t] = 1
            /\ firstPdfText[t] = NoText
            /\ cases[caseId[t]].text.src \in {"html", "none"}

\* C15: a content_text is replaced by PDF text only when it is empty or
\* shorter than 800 characters, and only by a flow that is through all the
\* PDF and image links of its page.
PdfTextOnlyAsLastResort ==
    [][\A i \in 1..Len(cases) :
          (cases'[i].text.src = "pdf" /\ cases'[i].text # cases[i].text) =>
             /\ cases[i].text.len < PdfFallbackMinLen
             /\ \E t \in Threads :
                   /\ pc[t] = "fallback"
                   /\ caseId[t] = i
                   /\ attempted[t] = parsed[t].npdf + parsed[t].nimg]_vars

\* A deep flow on a page with a PDF link and an image link has been through
\* both and has put the PDF text on its Case.
PdfTextFilledShortCase ==
    \E t \in Threads :
        /\ pc[t] = "close"
        /\ parsed[t].npdf >= 1 /\ parsed[t].nimg >= 1
        /\ attempted[t] = parsed[t].npdf + parsed[t].nimg
        /\ cases[caseId[t]].text.src = "pdf"

ScrapeUrlFetchesOnce == entry = "scrape_url" => targetFetches <= 1

\* C18: search_and_scrape crawls each of its 3 candidates with max_pages = 3
\* and never raises; what it returns holds every id of the crawls that
\* returned and nothing else, each id once, in the order of first occurrence
\* in the concatenation of their id lists; with no crawl returned it is empty.
SearchReturnsDistinctIds ==
    entry = "search_and_scrape" =>
        /\ epc # "raised"
        /\ \A k \in 1..Len(crawlsDone) :
              /\ crawlsDone[k].maxPages = [set |-> TRUE, n |-> 3]
              /\ crawlsDone[k].fetches <= 3
        /\ epc = "done" =>
              LET got(k) == IF crawlsDone[k].raised THEN <<>> ELSE crawlsDone[k].ids
                  all == got(1) \o got(2) \o got(3)
                  first(v) == CHOOSE i \in 1..Len(all) :
                                 all[i] = v /\ \A j \in 1..(i - 1) : all[j] # v
              IN  /\ Len(crawlsDone) = 3
                  /\ {returned[i] : i \in 1..Len(returned)} = {all[i] : i \in 1..Len(all)}
                  /\ \A i, j \in 1..Len(returned) :
                        i < j => /\ returned[i] # returned[j]
                                 /\ first(returned[i]) < first(returned[j])
                  /\ (\A k \in 1..3 : crawlsDone[k].raised) => returned = <<>>

\* A search has returned two ids: one candidate's crawl raised after it had
\* collected ids, the two others returned lists that share ids.
SearchDroppedRaisedCrawl ==
    /\ entry = "search_and_scrape"
    /\ epc = "done"
    /\ Len(returned) = 2
    /\ \E k \in 1..3 : crawlsDone[k].raised /\ Len(crawlsDone[k].ids) > 0
    /\ \E k \in 1..3 : ~crawlsDone[k].raised /\ Len(crawlsDone[k].ids) >= 2
    /\ Len(allIds) > Len(returned)

\* C19: when a page is done the loop ends exactly if the page has no next
\* link or max_pages is set and page_count has reached it.
LoopEndsAtBudgetOrChainEnd ==
    [][(cpc = "links" /\ pageCount' = pageCount + 1) =>
          (cpc' = "done" <=>
              (nextLink = NoPage \/ (maxPages.set /\ pageCount' >= maxPages.n)))]_vars

\* C20: a thread inside session.commit() holds db_write_lock, so no two
\* threads are inside session.commit() at the same time.
CommitsHoldWriteLock ==
    /\ \A t \in Threads : wpc[t] = "committing" => dbWriteLock = t
    /\ Cardinality({t \in Threads : wpc[t] = "committing"}) <= 1

ListingPageClassified ==
    verdict.called =>
        /\ page.next > 0 => verdict.value
        /\ page.next = 0 =>
             (verdict.value <=> Containers(page) >= ListingMinContainers)

\* A page with a rel="next" anchor and no container at all was classified as
\* a listing.
NextAnchorAloneIsListing ==
    /\ verdict.called
    /\ verdict.value
    /\ page.next > 0
    /\ Containers(page) = 0

\* C23: the mutual-exclusion region of a flow covers its whole sequence, from
\* the fetch and parse of the page to its last commit: while a flow for a URL
\* is anywhere in that sequence, no other flow for the same URL is.
WholeFlowExclusive ==
    \A t1, t2 \in Threads :
        (/\ t1 # t2
         /\ job[t1].url = job[t2].url
         /\ pc[t1] \in {"fetch", "lock"} \cup InTx)
            => pc[t2] \notin {"fetch", "lock"} \cup InTx

\* C24: the case upsert leaves each scalar metadata field of the row equal
\* to the value just parsed, whatever the row held before: the last write
\* wins, and a field the page has no value for overwrites a stored one.
UpsertLastWriteWins ==
    [][\A t \in Threads :
         (pc[t] = "assign" /\ pc'[t] = "akn")
            => /\ cases'[caseId[t]].title = parsed[t].title
               /\ cases'[caseId[t]].citation = parsed[t].citation]_vars

\* A row that an earlier run filled from a page with a title (the Image row
\* of that run is in the store: only the titled versions link images) has
\* just been upserted from a page without one, and has no title any more.
AbsentTitleOverwroteStored ==
    \E t \in Threads :
        /\ pc[t] = "akn"
        /\ idx[t] = 1
        /\ parsed[t].title = NoTitle
        /\ parsed[t].nimg = 0
        /\ cases[caseId[t]].title = NoTitle
        /\ \E i \in 1..Len(images) : images[i].case_id = caseId[t]

\* C25: when a write of the case upsert fails with store contention, the
\* transaction is rolled back (nothing of it is in the store, no INSERT is
\* left pending), _transaction_lock is released, and the retry wrapper runs
\* the whole operation again from its fetch, with at most 3 attempts in all:
\* the failure reaches the caller only when the third attempt has failed.
ContentionRetriedUpToThree ==
    [][\A t \in Threads :
         /\ attempt'[t] <= DetailMaxAttempts
         /\ (pc[t] \in {"insert", "assign"} /\ pc'[t] \notin {"insert", "assign", "akn"})
              => /\ txLock' # t
                 /\ ~pending'[t]
                 /\ cases' = cases
                 /\ IF attempt[t] < DetailMaxAttempts
                      THEN pc'[t] = "fetch" /\ attempt'[t] = attempt[t] + 1
                      ELSE pc'[t] = "failed"
         /\ pc'[t] = "failed"
              => attempt'[t] = DetailMaxAttempts /\ faults' = DetailMaxAttempts]_vars

\* Two attempts met a contended store; the third one stored the case and
\* returned its id.
ReturnedOnThirdAttempt ==
    \E t \in Threads :
        /\ pc[t] = "returned"
        /\ attempt[t] = DetailMaxAttempts
        /\ faults = DetailMaxAttempts - 1
        /\ result[t] # NoCase
        /\ cases[result[t]].url = job[t].url

\* C26 (as the claim states it): the text for the fallback is that of the
\* first PDF that downloads: once one PDF of the case has been downloaded
\* and stored, no later PDF is text-extracted, so first_pdf_text no longer
\* changes.
OnlyFirstDownloadedPdfExtracted ==
    [][\A t \in Threads :
         (pc[t] = "pdfs" /\ stored[t].doc >= 1)
            => firstPdfText'[t] = firstPdfText[t]]_vars

\* C26 (amended): with deep, the PDFs are text-extracted in download order
\* until one yields a text; once first_pdf_text is set no later PDF of the
\* case changes it, and it is this text the fallback writes. Without deep no
\* PDF is text-extracted.
FirstPdfTextKept ==
    [][\A t \in Threads :
         /\ (pc[t] = "pdfs" /\ firstPdfText[t] # NoText)
              => firstPdfText'[t] = firstPdfText[t]
         /\ (pc[t] = "pdfs" /\ ~job[t].deep) => firstPdfText'[t] = NoText
         /\ (pc[t] = "fallback" /\ pc'[t] = "close" /\ cases' # cases)
              => cases'[caseId[t]].text = firstPdfText[t]]_vars

\* Both PDFs of a page were downloaded with deep, and the flow has a PDF
\* text as it leaves the loop.
TwoPdfsOneText ==
    \E t \in Threads :
        /\ pc[t] \in {"images", "fallback"}
        /\ job[t].deep
        /\ parsed[t].npdf = ManyPdfLinks
        /\ stored[t].doc = ManyPdfLinks
        /\ firstPdfText[t] # NoText

\* C27: the two locks cannot deadlock. A thread that holds db_write_lock is
\* inside a flush or a commit and waits for no lock (so _transaction_lock is
\* never requested while db_write_lock is held); db_write_lock is requested
\* by the holder of _transaction_lock or by a thread that holds no lock; and
\* a thread that has left its function, by return or by exception, holds
\* neither lock; while a thread is inside its function, some thread inside
\* one can take its next step.
LocksOrderedAndReleased ==
    \A t \in Threads :
        /\ dbWriteLock = t => wpc[t] \in {"locked", "committing"}
        /\ txLock = t => handler[t] = "scrape_case_detail" /\ wpc[t] # "idle"
        /\ (wpc[t] = "at" /\ site[t] \in UnderWriteLock)
              => /\ dbWriteLock # t
                 /\ txLock = t \/ handler[t] = "summarize_case"
        /\ wpc[t] = "idle" => txLock # t /\ dbWriteLock # t
        /\ wpc[t] # "idle"
              => \E r \in Threads :
                     \/ wpc[r] \in {"locked", "committing"}
                     \/ wpc[r] = "at" /\ site[r] \notin UnderWriteLock
                     \/ wpc[r] = "at" /\ dbWriteLock = NoThread

\* A scrape_case_detail left by an exception, and another thread has since
\* taken _transaction_lock and holds db_write_lock inside it.
LocksTakenAfterException ==
    \E t1, t2 \in Threads :
        /\ t1 # t2
        /\ exited[t1] = [h |-> "scrape_case_detail", by |-> "exception"]
        /\ wpc[t1] = "idle"
        /\ txLock = t2
        /\ dbWriteLock = t2

\* C28: no step of scrape_case_detail (and so no run of crawl_listing,
\* scrape_url or search_and_scrape, which store cases through it) changes
\* the url or the summary of a Case row that exists: a case that has a
\* summary keeps it through a re-scrape.
ScrapeKeepsSummaryAndUrl ==
    [][detailVars' # detailVars
          => \A i \in 1..Len(cases) :
                 /\ i <= Len(cases')
                 /\ cases'[i].url = cases[i].url
                 /\ cases'[i].summary = cases[i].summary]_vars

\* A case was summarised from its content_text; a later scrape of its URL
\* found a page without text and has just upserted it: the row has no text
\* any more and still has that summary.
SummaryOutlivedRescrape ==
    \E t \in Threads :
        /\ pc[t] = "akn"
        /\ idx[t] = 1
        /\ cases[caseId[t]].url = job[t].url
        /\ cases[caseId[t]].text = NoText
        /\ cases[caseId[t]].summary = TextOf("content_text", 1)

====
